---------------------------- MODULE Spec2Model ----------------------------
(***************************************************************************)
(* Model of the secure terminal MCP server (src/src/index.ts): the command *)
(* validator, the policy table, the boundary resolver, the execution gate  *)
(* and the session state of TerminalServer.                                *)
(*                                                                         *)
(* A JavaScript string is modelled as a sequence of one-character strings, *)
(* so that trimming, lower-casing, joining, prefix tests and the regular   *)
(* expressions of the source are computed character by character.          *)
(***************************************************************************)
EXTENDS Integers, Sequences, FiniteSets, TLC

(***************************************************************************)
(* String primitives of the JavaScript runtime used by the source.         *)
(***************************************************************************)
UpperCase == <<"A","B","C","D","E","F","G","H","I","J","K","L","M","N","O","P","Q","R","S","T","U","V","W","X","Y","Z">>

LowerCase == <<"a","b","c","d","e","f","g","h","i","j","k","l","m","n","o","p","q","r","s","t","u","v","w","x","y","z">>

Digits == {"0","1","2","3","4","5","6","7","8","9"}

Letters == {UpperCase[i] : i \in 1..26} \cup {LowerCase[i] : i \in 1..26}

\* \w of a JavaScript regular expression
WordChars == Letters \cup Digits \cup {"_"}

\* the characters String.prototype.trim removes (those the inputs can hold)
Whitespace == {" ", "\t", "\n"}

\* the character U+0060, which a TLA+ string cannot hold
Backtick == "\\x60"

ToLowerChar(c) == IF \E i \in 1..26 : UpperCase[i] = c THEN LowerCase[CHOOSE i \in 1..26 : UpperCase[i] = c] ELSE c

toLowerCase(s) == [i \in 1..Len(s) |-> ToLowerChar(s[i])]

RECURSIVE TrimStart(_)
TrimStart(s) == IF Len(s) > 0 /\ s[1] \in Whitespace THEN TrimStart(Tail(s)) ELSE s

RECURSIVE TrimEnd(_)
TrimEnd(s) == IF Len(s) > 0 /\ s[Len(s)] \in Whitespace THEN TrimEnd(SubSeq(s, 1, Len(s) - 1)) ELSE s

trim(s) == TrimEnd(TrimStart(s))

RECURSIVE join(_, _)
join(list, sep) == IF Len(list) = 0 THEN <<>> ELSE IF Len(list) = 1 THEN list[1] ELSE list[1] \o sep \o join(Tail(list), sep)

startsWith(s, prefix) == Len(prefix) <= Len(s) /\ SubSeq(s, 1, Len(prefix)) = prefix

\* includes that compares without regard to case
includes_IgnoreCase(list, x) == \E i \in 1..Len(list) : toLowerCase(list[i]) = toLowerCase(x)

\* includes applied to the argument in lower case
includes_LowerCased(list, x) == \E i \in 1..Len(list) : list[i] = toLowerCase(x)

includes(list, x) == \E i \in 1..Len(list) : list[i] = x

(***************************************************************************)
(* Policy table: the whitelist, in the key order of the object literal.    *)
(***************************************************************************)
ALLOWED_COMMANDS == <<
    [cmd |-> <<"l","s">>, allowedArgs |-> <<<<"-","l">>, <<"-","a">>, <<"-","l","a">>, <<"-","h">>, <<"-","R">>, <<"-","-","h","e","l","p">>>>, description |-> "List directory contents", requiresFile |-> FALSE],
    [cmd |-> <<"c","a","t">>, allowedArgs |-> <<<<"-","-","h","e","l","p">>>>, description |-> "Display file contents", requiresFile |-> TRUE],
    [cmd |-> <<"h","e","a","d">>, allowedArgs |-> <<<<"-","n">>, <<"-","-","h","e","l","p">>>>, description |-> "Display first lines of file", requiresFile |-> TRUE],
    [cmd |-> <<"t","a","i","l">>, allowedArgs |-> <<<<"-","n">>, <<"-","-","h","e","l","p">>>>, description |-> "Display last lines of file", requiresFile |-> TRUE],
    [cmd |-> <<"f","i","l","e">>, allowedArgs |-> <<<<"-","-","h","e","l","p">>>>, description |-> "Determine file type", requiresFile |-> TRUE],
    [cmd |-> <<"w","c">>, allowedArgs |-> <<<<"-","l">>, <<"-","w">>, <<"-","c">>, <<"-","-","h","e","l","p">>>>, description |-> "Word, line, character count", requiresFile |-> TRUE],
    [cmd |-> <<"p","w","d">>, allowedArgs |-> <<<<"-","-","h","e","l","p">>>>, description |-> "Print working directory", requiresFile |-> FALSE],
    [cmd |-> <<"f","i","n","d">>, allowedArgs |-> <<<<"-","n","a","m","e">>, <<"-","t","y","p","e">>, <<"-","m","a","x","d","e","p","t","h">>, <<"-","-","h","e","l","p">>>>, description |-> "Find files and directories", requiresFile |-> FALSE],
    [cmd |-> <<"t","r","e","e">>, allowedArgs |-> <<<<"-","L">>, <<"-","a">>, <<"-","-","h","e","l","p">>>>, description |-> "Display directory tree", requiresFile |-> FALSE],
    [cmd |-> <<"w","h","o","a","m","i">>, allowedArgs |-> <<<<"-","-","h","e","l","p">>>>, description |-> "Show current user", requiresFile |-> FALSE],
    [cmd |-> <<"i","d">>, allowedArgs |-> <<<<"-","-","h","e","l","p">>>>, description |-> "Show user and group IDs", requiresFile |-> FALSE],
    [cmd |-> <<"u","n","a","m","e">>, allowedArgs |-> <<<<"-","a">>, <<"-","r">>, <<"-","s">>, <<"-","-","h","e","l","p">>>>, description |-> "System information", requiresFile |-> FALSE],
    [cmd |-> <<"d","a","t","e">>, allowedArgs |-> <<<<"-","-","h","e","l","p">>>>, description |-> "Show current date and time", requiresFile |-> FALSE],
    [cmd |-> <<"u","p","t","i","m","e">>, allowedArgs |-> <<<<"-","-","h","e","l","p">>>>, description |-> "Show system uptime", requiresFile |-> FALSE],
    [cmd |-> <<"d","f">>, allowedArgs |-> <<<<"-","h">>, <<"-","-","h","e","l","p">>>>, description |-> "Show disk space usage", requiresFile |-> FALSE],
    [cmd |-> <<"f","r","e","e">>, allowedArgs |-> <<<<"-","h">>, <<"-","-","h","e","l","p">>>>, description |-> "Show memory usage", requiresFile |-> FALSE],
    [cmd |-> <<"p","s">>, allowedArgs |-> <<<<"a","u","x">>, <<"-","-","h","e","l","p">>>>, description |-> "Show running processes", requiresFile |-> FALSE],
    [cmd |-> <<"n","o","d","e">>, allowedArgs |-> <<<<"-","-","v","e","r","s","i","o","n">>, <<"-","-","h","e","l","p">>>>, description |-> "Node.js version", requiresFile |-> FALSE],
    [cmd |-> <<"n","p","m">>, allowedArgs |-> <<<<"-","-","v","e","r","s","i","o","n">>, <<"l","i","s","t">>, <<"-","-","h","e","l","p">>>>, description |-> "NPM operations (limited)", requiresFile |-> FALSE],
    [cmd |-> <<"g","i","t">>, allowedArgs |-> <<<<"s","t","a","t","u","s">>, <<"l","o","g">>, <<"-","-","o","n","e","l","i","n","e">>, <<"b","r","a","n","c","h">>, <<"d","i","f","f">>, <<"-","-","h","e","l","p">>>>, description |-> "Git operations (read-only)", requiresFile |-> FALSE],
    [cmd |-> <<"w","h","i","c","h">>, allowedArgs |-> <<<<"-","-","h","e","l","p">>>>, description |-> "Locate command", requiresFile |-> FALSE],
    [cmd |-> <<"t","y","p","e">>, allowedArgs |-> <<<<"-","-","h","e","l","p">>>>, description |-> "Display command type", requiresFile |-> FALSE],
    [cmd |-> <<"g","r","e","p">>, allowedArgs |-> <<<<"-","n">>, <<"-","i">>, <<"-","r">>, <<"-","-","h","e","l","p">>>>, description |-> "Search text patterns", requiresFile |-> TRUE],
    [cmd |-> <<"s","o","r","t">>, allowedArgs |-> <<<<"-","n">>, <<"-","r">>, <<"-","-","h","e","l","p">>>>, description |-> "Sort lines", requiresFile |-> TRUE],
    [cmd |-> <<"u","n","i","q">>, allowedArgs |-> <<<<"-","c">>, <<"-","-","h","e","l","p">>>>, description |-> "Report unique lines", requiresFile |-> TRUE],
    [cmd |-> <<"m","a","n">>, allowedArgs |-> <<<<"-","-","h","e","l","p">>>>, description |-> "Manual pages", requiresFile |-> TRUE],
    [cmd |-> <<"h","e","l","p">>, allowedArgs |-> <<>>, description |-> "Help command", requiresFile |-> FALSE],
    [cmd |-> <<"e","c","h","o">>, allowedArgs |-> <<<<"-","-","h","e","l","p">>>>, description |-> "Display text (limited)", requiresFile |-> FALSE]
>>

AllowedKeys == {ALLOWED_COMMANDS[i].cmd : i \in 1..Len(ALLOWED_COMMANDS)}

\* Properties every object literal inherits from Object.prototype; the `in`
\* operator of the whitelist test sees them as well as the own keys.
ObjectPrototypeKeys == {<<"c","o","n","s","t","r","u","c","t","o","r">>, <<"_","_","p","r","o","t","o","_","_">>, <<"t","o","S","t","r","i","n","g">>, <<"v","a","l","u","e","O","f">>, <<"h","a","s","O","w","n","P","r","o","p","e","r","t","y">>, <<"i","s","P","r","o","t","o","t","y","p","e","O","f">>, <<"p","r","o","p","e","r","t","y","I","s","E","n","u","m","e","r","a","b","l","e">>, <<"t","o","L","o","c","a","l","e","S","t","r","i","n","g">>}

\* `normalizedCommand in ALLOWED_COMMANDS`
InAllowedCommands(normalizedCommand) == normalizedCommand \in AllowedKeys \/ normalizedCommand \in ObjectPrototypeKeys

\* ALLOWED_COMMANDS[normalizedCommand]: the table entry, or an inherited
\* object that has no allowedArgs and no requiresFile property.
InheritedObject == [cmd |-> <<>>, allowedArgs |-> <<>>, description |-> "", requiresFile |-> FALSE, hasAllowedArgs |-> FALSE]

CommandConfigOf(normalizedCommand) == IF normalizedCommand \in AllowedKeys THEN LET e == ALLOWED_COMMANDS[CHOOSE i \in 1..Len(ALLOWED_COMMANDS) : ALLOWED_COMMANDS[i].cmd = normalizedCommand] IN [cmd |-> e.cmd, allowedArgs |-> e.allowedArgs, description |-> e.description, requiresFile |-> e.requiresFile, hasAllowedArgs |-> TRUE] ELSE InheritedObject

(***************************************************************************)
(* Deny list.  A pattern is an alternation of character classes (chars)    *)
(* and of \b-delimited literals (words), as every pattern of the source is.*)
(***************************************************************************)
FORBIDDEN_PATTERNS == <<
    [source |-> "[;&|\\x60$(){}]", chars |-> {";","&","|",Backtick,"$","(",")","{","}"}, words |-> {}],
    [source |-> "\\brm\\b|\\bmv\\b|\\bcp\\b|\\btouch\\b|\\bmkdir\\b|\\brmdir\\b", chars |-> {}, words |-> {<<"r","m">>, <<"m","v">>, <<"c","p">>, <<"t","o","u","c","h">>, <<"m","k","d","i","r">>, <<"r","m","d","i","r">>}],
    [source |-> "\\bcurl\\b|\\bwget\\b|\\bssh\\b|\\bscp\\b|\\brsync\\b|\\bftp\\b|\\btelnet\\b", chars |-> {}, words |-> {<<"c","u","r","l">>, <<"w","g","e","t">>, <<"s","s","h">>, <<"s","c","p">>, <<"r","s","y","n","c">>, <<"f","t","p">>, <<"t","e","l","n","e","t">>}],
    [source |-> "\\bsudo\\b|\\bsu\\b|\\bchmod\\b|\\bchown\\b|\\bmount\\b|\\bumount\\b", chars |-> {}, words |-> {<<"s","u","d","o">>, <<"s","u">>, <<"c","h","m","o","d">>, <<"c","h","o","w","n">>, <<"m","o","u","n","t">>, <<"u","m","o","u","n","t">>}],
    [source |-> "\\bkill\\b|\\bkillall\\b|\\bnohup\\b|\\bbg\\b|\\bfg\\b|\\bjobs\\b", chars |-> {}, words |-> {<<"k","i","l","l">>, <<"k","i","l","l","a","l","l">>, <<"n","o","h","u","p">>, <<"b","g">>, <<"f","g">>, <<"j","o","b","s">>}],
    [source |-> "\\bapt\\b|\\byum\\b|\\bpip\\b|\\binstall\\b|\\bremove\\b|\\bupdate\\b|\\bupgrade\\b", chars |-> {}, words |-> {<<"a","p","t">>, <<"y","u","m">>, <<"p","i","p">>, <<"i","n","s","t","a","l","l">>, <<"r","e","m","o","v","e">>, <<"u","p","d","a","t","e">>, <<"u","p","g","r","a","d","e">>}],
    [source |-> "\\bvi\\b|\\bvim\\b|\\bnano\\b|\\bemacs\\b|\\btop\\b|\\bhtop\\b|\\bless\\b|\\bmore\\b", chars |-> {}, words |-> {<<"v","i">>, <<"v","i","m">>, <<"n","a","n","o">>, <<"e","m","a","c","s">>, <<"t","o","p">>, <<"h","t","o","p">>, <<"l","e","s","s">>, <<"m","o","r","e">>}],
    [source |-> "\\bsource\\b|\\b\\.\\b|\\bexport\\b|\\balias\\b|\\bunalias\\b|\\bhistory\\b", chars |-> {}, words |-> {<<"s","o","u","r","c","e">>, <<".">>, <<"e","x","p","o","r","t">>, <<"a","l","i","a","s">>, <<"u","n","a","l","i","a","s">>, <<"h","i","s","t","o","r","y">>}],
    [source |-> "[<>]", chars |-> {"<",">"}, words |-> {}],
    [source |-> "[*?[\\]]", chars |-> {"*","?","[","]"}, words |-> {}]
>>

\* is the character at position i a word character (positions outside the
\* string are not)
IsWordAt(s, i) == i \in 1..Len(s) /\ s[i] \in WordChars

\* \b between positions i-1 and i
WordBoundary(s, i) == IsWordAt(s, i - 1) # IsWordAt(s, i)

\* RegExp.prototype.test for a pattern of the deny list
test(pattern, s) == (\E i \in 1..Len(s) : s[i] \in pattern.chars) \/ (\E w \in pattern.words : \E i \in 1..(Len(s) - Len(w) + 1) : WordBoundary(s, i) /\ SubSeq(s, i, i + Len(w) - 1) = w /\ WordBoundary(s, i + Len(w)))

\* /^\/?[a-zA-Z0-9._\/-]+$/
SafeFilePathChars == Letters \cup Digits \cup {".", "_", "/", "-"}

\* the file path test without its character class
IsSafeFilePath_AnyCharacter(s) == Len(s) >= 1

IsSafeFilePath(s) == Len(s) >= 1 /\ \A i \in 1..Len(s) : s[i] \in SafeFilePathChars

(***************************************************************************)
(* validateAndSanitizeCommand.  The result carries the error as a kind and *)
(* a detail (the text interpolated into the message); kind "TypeError" is  *)
(* the exception the function throws instead of returning.                 *)
(***************************************************************************)
MAX_ARGS == 10

Invalid(kind, detail) == [isValid |-> FALSE, sanitizedCommand |-> <<>>, sanitizedArgs |-> <<>>, error |-> kind, detail |-> detail]

\* the accepted result with the arguments in reverse order
Valid_Reversed(cmd, sargs) == [isValid |-> TRUE, sanitizedCommand |-> cmd, sanitizedArgs |-> [i \in 1..Len(sargs) |-> sargs[Len(sargs) + 1 - i]], error |-> "", detail |-> <<>>]

Valid(cmd, sargs) == [isValid |-> TRUE, sanitizedCommand |-> cmd, sanitizedArgs |-> sargs, error |-> "", detail |-> <<>>]

\* FirstForbidden with the loop left after its first round
FirstForbidden_FirstPatternOnly(s) == IF test(FORBIDDEN_PATTERNS[1], s) THEN 1 ELSE 0

\* index of the first pattern of the list that matches, 0 when none does
FirstForbidden(s) == IF \E k \in 1..Len(FORBIDDEN_PATTERNS) : test(FORBIDDEN_PATTERNS[k], s) THEN CHOOSE k \in 1..Len(FORBIDDEN_PATTERNS) : test(FORBIDDEN_PATTERNS[k], s) /\ \A j \in 1..(k - 1) : ~test(FORBIDDEN_PATTERNS[j], s) ELSE 0

\* the count check with >= in the place of >
CheckCount_AtLeast(normalizedCommand, sanitizedArgs) == IF Len(sanitizedArgs) >= MAX_ARGS THEN Invalid("Too many arguments (maximum 10 allowed)", <<>>) ELSE Valid(normalizedCommand, sanitizedArgs)

\* the count check and the result of a request that passed it (185-196)
CheckCount(normalizedCommand, sanitizedArgs) == IF Len(sanitizedArgs) > MAX_ARGS THEN Invalid("Too many arguments (maximum 10 allowed)", <<>>) ELSE Valid(normalizedCommand, sanitizedArgs)

\* the loop over args (index.ts 157-182) from position i on, with the
\* arguments sanitized so far, followed by the count check
RECURSIVE ValidateArgs(_, _, _, _, _)
ValidateArgs(normalizedCommand, commandConfig, args, i, sanitizedArgs) ==
    IF i > Len(args)
    THEN CheckCount(normalizedCommand, sanitizedArgs)
    ELSE LET trimmedArg == trim(args[i])
             inList == Len(commandConfig.allowedArgs) > 0 /\ includes(commandConfig.allowedArgs, trimmedArg)
             fileBranch == commandConfig.requiresFile /\ ~startsWith(trimmedArg, <<"-">>)
         IN  IF Len(trimmedArg) = 0
             THEN ValidateArgs(normalizedCommand, commandConfig, args, i + 1, sanitizedArgs)
             ELSE IF ~commandConfig.hasAllowedArgs
             THEN Invalid("TypeError", trimmedArg)
             ELSE IF fileBranch /\ ~IsSafeFilePath(trimmedArg)
             THEN Invalid("File path argument is not allowed", trimmedArg)
             ELSE IF ~(inList \/ fileBranch)
             THEN Invalid("Argument not allowed for command", trimmedArg)
             ELSE ValidateArgs(normalizedCommand, commandConfig, args, i + 1, Append(sanitizedArgs, trimmedArg))

validateAndSanitizeCommand(command, args) ==
    LET normalizedCommand == toLowerCase(trim(command))
        fullCommandString == normalizedCommand \o <<" ">> \o join(args, <<" ">>)
        k == FirstForbidden(fullCommandString)
    IN  IF Len(command) = 0
        THEN Invalid("Command must be a non-empty string", <<>>)
        ELSE IF ~InAllowedCommands(normalizedCommand)
        THEN Invalid("Command is not in the allowed whitelist", normalizedCommand)
        ELSE IF k # 0
        THEN Invalid("Command contains forbidden pattern", <<FORBIDDEN_PATTERNS[k].source>>)
        ELSE ValidateArgs(normalizedCommand, CommandConfigOf(normalizedCommand), args, 1, <<>>)

(***************************************************************************)
(* JavaScript values that are a number, a string, null or undefined        *)
(* (lastExitCode, lastCommand, error.code, options.timeout).               *)
(***************************************************************************)
JSNull == [type |-> "null", num |-> 0, str |-> <<>>]

JSUndefined == [type |-> "undefined", num |-> 0, str |-> <<>>]

JSNumber(n) == [type |-> "number", num |-> n, str |-> <<>>]

JSString(s) == [type |-> "string", num |-> 0, str |-> s]

\* ToBoolean: null, undefined, 0 and the empty string are falsy
Truthy(v) == (v.type = "number" /\ v.num # 0) \/ (v.type = "string" /\ Len(v.str) > 0)

\* a || b
OrElse(a, b) == IF Truthy(a) THEN a ELSE b

\* Math.min of two integers
Min(a, b) == IF a <= b THEN a ELSE b

(***************************************************************************)
(* Paths (node:path, POSIX) and the file system the server runs on.        *)
(***************************************************************************)
sep == <<"/">>

\* the components of a path between separators (empty ones included)
RECURSIVE SplitPath(_)
SplitPath(s) ==
    IF Len(s) = 0 THEN <<>>
    ELSE LET k == IF \E j \in 1..Len(s) : s[j] = "/" THEN CHOOSE j \in 1..Len(s) : s[j] = "/" /\ \A h \in 1..(j - 1) : s[h] # "/" ELSE Len(s) + 1
         IN  <<SubSeq(s, 1, k - 1)>> \o (IF k >= Len(s) THEN <<>> ELSE SplitPath(SubSeq(s, k + 1, Len(s))))

\* normalizeString of an absolute path: drop '' and '.', let '..' remove the
\* component before it (nothing is removed above the root)
RECURSIVE NormalizeSegments(_, _)
NormalizeSegments(segs, acc) ==
    IF Len(segs) = 0 THEN acc
    ELSE LET seg == Head(segs)
         IN  IF Len(seg) = 0 \/ seg = <<".">>
             THEN NormalizeSegments(Tail(segs), acc)
             ELSE IF seg = <<".",".">>
             THEN NormalizeSegments(Tail(segs), IF Len(acc) = 0 THEN acc ELSE SubSeq(acc, 1, Len(acc) - 1))
             ELSE NormalizeSegments(Tail(segs), Append(acc, seg))

\* the right-to-left scan of path.resolve: prepend paths[i], paths[i-1], ...
\* and at last the process working directory until the result is absolute
RECURSIVE ResolveScan(_, _, _, _)
ResolveScan(paths, i, resolvedPath, cwd) ==
    LET p == IF i >= 1 THEN paths[i] ELSE cwd
    IN  IF Len(p) = 0
        THEN ResolveScan(paths, i - 1, resolvedPath, cwd)
        ELSE IF p[1] = "/"
        THEN p \o sep \o resolvedPath
        ELSE ResolveScan(paths, i - 1, p \o sep \o resolvedPath, cwd)

\* path.resolve(...paths) in a process whose working directory is cwd
pathResolve(paths, cwd) == sep \o join(NormalizeSegments(SplitPath(ResolveScan(paths, Len(paths), <<>>, cwd)), <<>>), sep)

\* The two file systems of the model: a Linux layout, where /tmp is a
\* directory, and a macOS layout, where /tmp is a symbolic link to
\* /private/tmp.  Both hold a symbolic link to /etc under the temporary
\* directory and a regular file there.
LinuxFS == [dirs |-> {<<"/">>, <<"/","t","m","p">>, <<"/","t","m","p","/","t","e","s","t">>, <<"/","t","m","p","/","t","e","s","t","/","s","u","b">>, <<"/","e","t","c">>, <<"/","t","m","p","2">>, <<"/","h","o","m","e">>, <<"/","h","o","m","e","/","u","s","e","r">>}, files |-> {<<"/","t","m","p","/","n","o","t","e","s">>, <<"/","e","t","c","/","s","h","a","d","o","w">>}, links |-> {<<<<"/","t","m","p","/","l","i","n","k">>, <<"/","e","t","c">>>>}]

DarwinFS == [dirs |-> {<<"/">>, <<"/","p","r","i","v","a","t","e">>, <<"/","p","r","i","v","a","t","e","/","t","m","p">>, <<"/","p","r","i","v","a","t","e","/","t","m","p","/","t","e","s","t">>, <<"/","p","r","i","v","a","t","e","/","t","m","p","/","t","e","s","t","/","s","u","b">>, <<"/","e","t","c">>, <<"/","t","m","p","2">>, <<"/","h","o","m","e">>, <<"/","h","o","m","e","/","u","s","e","r">>}, files |-> {<<"/","p","r","i","v","a","t","e","/","t","m","p","/","n","o","t","e","s">>, <<"/","e","t","c","/","s","h","a","d","o","w">>}, links |-> {<<<<"/","t","m","p">>, <<"/","p","r","i","v","a","t","e","/","t","m","p">>>>, <<<<"/","p","r","i","v","a","t","e","/","t","m","p","/","l","i","n","k">>, <<"/","e","t","c">>>>}]

FileSystems == {LinuxFS, DarwinFS}

IsLink(fs, p) == \E l \in fs.links : l[1] = p

LinkTarget(fs, p) == (CHOOSE l \in fs.links : l[1] = p)[2]

\* follow the symbolic links of each component in turn, from the root
RECURSIVE RealPathScan(_, _, _)
RealPathScan(fs, cur, segs) ==
    IF Len(segs) = 0 THEN cur
    ELSE LET next == IF cur = sep THEN sep \o Head(segs) ELSE cur \o sep \o Head(segs)
         IN  RealPathScan(fs, IF IsLink(fs, next) THEN LinkTarget(fs, next) ELSE next, Tail(segs))

\* fs.realpathSync of a normalized absolute path (the textual path is kept
\* from the first component that does not exist)
realpath(fs, p) == RealPathScan(fs, sep, NormalizeSegments(SplitPath(p), <<>>))

\* fs.existsSync: something, a directory or not, is at the path
existsSync(fs, p) == realpath(fs, p) \in fs.dirs \cup fs.files

\* a directory is at the path: process.chdir succeeds, a process can be
\* spawned with this working directory
IsDirectory(fs, p) == realpath(fs, p) \in fs.dirs

(***************************************************************************)
(* Inputs of the model.                                                    *)
(***************************************************************************)
\* most requests that may be awaiting their process at once
MaxRunning == 1

\* values of BOUNDARY_DIR in the environment of the server (<<>>: not set)
BoundaryDirValues == {<<>>, <<"/","p","r","i","v","a","t","e","/","t","m","p">>}

\* values of BOUNDARY_ESCAPE in the environment of the server (<<>>: not set)
BoundaryEscapeValues == {<<>>, <<"t","r","u","e">>}

\* the directory the server is started in
StartDirs == {<<"/","h","o","m","e","/","u","s","e","r">>}

\* the command, args and options.cwd of the execute_command requests
ExecCommands == {<<"l","s">>, <<"r","m">>, <<"c","o","n","s","t","r","u","c","t","o","r">>}

ExecArgLists == {<<>>, <<<<";"," ","r","m"," ","-","r","f"," ","/">>>>, <<<<"x">>>>}

ExecCwds == {<<>>, <<"/","e","t","c">>}

\* the path of the change_directory requests
CdPaths == {<<"s","u","b">>, <<".",".">>, <<".",".","/",".",".","/",".",".","/","e","t","c">>, <<"/","e","t","c","/","s","h","a","d","o","w">>, <<"/","t","m","p","2">>, <<"/","t","m","p","/","t","e","s","t">>, <<"/","p","r","i","v","a","t","e","/","t","m","p","/","t","e","s","t">>, <<"l","i","n","k">>, <<"n","o","t","e","s">>}

\* exit statuses of a process that ran and failed
FailureExitCodes == {2}

\* what a failed process may have written to stderr
FailureStderrs == {<<>>, <<"e","r","r">>}

\* values of options.timeout (undefined: not given)
Timeouts == {JSUndefined} \cup {JSNumber(n) : n \in {-1, 0, 1, 5000, 10000, 10001, 20000}}

\* values of options.env (<<>>: not given, an object without keys)
CallerEnvs == {<<>>, [FOO |-> <<"1">>], [PATH |-> <<"/","e","v","i","l">>], [PATH |-> <<"/","e","v","i","l">>, LD_PRELOAD |-> <<"x",".","s","o">>]}

\* process.env as executeCommand reads it: the variables it passes on (USER
\* is not set in the second) and others of the server
ProcessEnvs == {[PATH |-> <<"/","u","s","r","/","b","i","n">>, HOME |-> <<"/","h","o","m","e","/","u","s","e","r">>, USER |-> <<"u","s","e","r">>, SHELL |-> <<"/","b","i","n","/","s","h">>, BOUNDARY_DIR |-> <<"/","t","m","p">>, API_TOKEN |-> <<"s","e","c","r","e","t">>], [PATH |-> <<"/","b","i","n">>, HOME |-> <<"/","r","o","o","t">>, SHELL |-> <<"/","b","i","n","/","b","a","s","h">>, FOO |-> <<"0">>]}

\* the options of an execute_command request that gives none
NoOptions == [cwd |-> <<>>, timeout |-> JSUndefined, env |-> <<>>]

(***************************************************************************)
(* State.                                                                  *)
(***************************************************************************)
VARIABLES
    fs,           \* the file system the server runs on
    env,          \* process.env: BOUNDARY_DIR and BOUNDARY_ESCAPE
    processCwd,   \* process.cwd()
    state,        \* TerminalServer.state: currentDirectory, lastExitCode, lastCommand
    running,      \* the executions awaiting execAsync, in arrival order
    spawned,      \* the options of the latest call of execAsync
    response,     \* the outcome of the latest request that was answered
    vInput,       \* a (command, args) pair handed to the validator alone
    vResult       \* the result of validating vInput

vars == <<fs, env, processCwd, state, running, spawned, response, vInput, vResult>>

(***************************************************************************)
(* Boundary helpers (index.ts 1-24).                                       *)
(***************************************************************************)
DEFAULT_BOUNDARY == <<"/","t","m","p">>

\* process.env.BOUNDARY_DIR || '/tmp'
getBoundaryDir(e) == IF Len(e.BOUNDARY_DIR) > 0 THEN e.BOUNDARY_DIR ELSE DEFAULT_BOUNDARY

\* IsWithin with the separator left out of the prefix
IsWithin_NoSeparator(resolved, boundary) == resolved = boundary \/ startsWith(resolved, boundary)

\* the test of index.ts 14-17 on a resolved path and a resolved boundary
IsWithin(resolved, boundary) == resolved = boundary \/ startsWith(resolved, boundary \o sep)

\* resolveAndValidatePath: ok = FALSE stands for the McpError it throws
resolveAndValidatePath(e, cwd, currentDir, userPath) ==
    LET boundary == pathResolve(<<getBoundaryDir(e)>>, cwd)
        resolved == pathResolve(<<currentDir, userPath>>, cwd)
    IN  [ok |-> IsWithin(resolved, boundary), resolved |-> resolved, boundary |-> boundary]

(***************************************************************************)
(* Responses: what handleCallTool returns (status "ok") or throws (status  *)
(* "error", with the McpError code and the kind of message).               *)
(***************************************************************************)
NoResponse == [tool |-> "", status |-> "", code |-> "", reason |-> "", path |-> <<>>, text |-> <<>>, outcome |-> "", errorCode |-> JSNull, exitCode |-> JSNull, stderr |-> <<>>]

Answer(tool, text) == [NoResponse EXCEPT !.tool = tool, !.status = "ok", !.text = text]

Thrown(tool, code, reason, text) == [NoResponse EXCEPT !.tool = tool, !.status = "error", !.code = code, !.reason = reason, !.text = text]

ForCd(r, path) == [r EXCEPT !.path = path]

(***************************************************************************)
(* Initial state: the server has been constructed (index.ts 229-247) in a  *)
(* process started in some directory with some environment.                *)
(***************************************************************************)
\* execAsync has not been called
NotSpawned == [called |-> FALSE, cwd |-> <<>>]

NoInput == [command |-> <<>>, args |-> <<>>, options |-> NoOptions, processEnv |-> <<>>]

NotValidated == Invalid("", <<>>)

Init ==
    /\ fs \in FileSystems
    /\ env \in [BOUNDARY_DIR : BoundaryDirValues, BOUNDARY_ESCAPE : BoundaryEscapeValues]
    /\ processCwd \in StartDirs
    /\ state = [currentDirectory |-> processCwd, lastExitCode |-> JSNull, lastCommand |-> JSNull]
    /\ running = <<>>
    /\ spawned = NotSpawned
    /\ response = NoResponse
    /\ vInput = NoInput
    /\ vResult = NotValidated

\* a handler that throws: the request is answered with the error and nothing
\* else happens
Throw(error) ==
    /\ response' = error
    /\ UNCHANGED <<fs, env, processCwd, state, running, spawned, vInput, vResult>>

(***************************************************************************)
(* execute_command (index.ts 375-396 and 318-354): validation, then the    *)
(* spawn of the process; the request is answered when execAsync settles.   *)
(***************************************************************************)
fullCommandOf(validation) == validation.sanitizedCommand \o <<" ">> \o join(validation.sanitizedArgs, <<" ">>)

\* options.cwd || this.state.currentDirectory
execCwd(optionsCwd, currentDirectory) == IF Len(optionsCwd) > 0 THEN optionsCwd ELSE currentDirectory

\* the default and the ceiling of the timeout, in milliseconds
MAX_TIMEOUT == 10000

\* the timeout without the ceiling of Math.min
effectiveTimeout_NoCeiling(requested) == OrElse(requested, JSNumber(MAX_TIMEOUT)).num

\* the requested number kept even when it is zero
effectiveTimeout_ZeroKept(requested) == Min((IF requested.type = "number" THEN requested ELSE JSNumber(MAX_TIMEOUT)).num, MAX_TIMEOUT)

\* Math.min(options.timeout || 10000, 10000)
effectiveTimeout(requested) == Min(OrElse(requested, JSNumber(MAX_TIMEOUT)).num, MAX_TIMEOUT)

\* { ...base, ...extra }: the keys of both, extra deciding the common ones
Spread(base, extra) == [k \in (DOMAIN base) \cup (DOMAIN extra) |-> IF k \in DOMAIN extra THEN extra[k] ELSE base[k]]

\* obj[key] of an object of strings: undefined for a key it has not
PropertyOf(obj, key) == IF key \in DOMAIN obj THEN JSString(obj[key]) ELSE JSUndefined

\* the variables of the server that are passed on
PASSED_ON == {"PATH", "HOME", "USER", "SHELL"}

\* the environment with the four variables of the server written after the
\* caller's
execEnv_ServerLast(processEnv, optionsEnv) == Spread([k \in DOMAIN optionsEnv |-> JSString(optionsEnv[k])], [k \in PASSED_ON |-> PropertyOf(processEnv, k)])

\* execOptions.env: PATH, HOME, USER and SHELL of the server, then the
\* spread of options.env
execEnv(processEnv, optionsEnv) == Spread([k \in PASSED_ON |-> PropertyOf(processEnv, k)], [k \in DOMAIN optionsEnv |-> JSString(optionsEnv[k])])

\* a process can be started in a working directory that is a directory;
\* otherwise the call fails with the code 'ENOENT'
CanSpawn(f, cwd, dir) == IsDirectory(f, pathResolve(<<dir>>, cwd))

\* execOptions (index.ts 337-350)
execOptionsOf(options, currentDirectory, processEnv) == [cwd |-> execCwd(options.cwd, currentDirectory), timeout |-> effectiveTimeout(options.timeout), env |-> execEnv(processEnv, options.env)]

ExecError(code, stderr, message) == [code |-> code, stderr |-> stderr, message |-> message]

\* the errors execAsync may reject with, for the given stderr contents
Errors(started, stderrs) ==
    IF started
    THEN {ExecError(JSNumber(n), e, <<"f","a","i","l","e","d">>) : n \in FailureExitCodes, e \in stderrs} \cup {ExecError(JSNull, <<>>, <<"f","a","i","l","e","d">>)}
    ELSE {ExecError(JSString(<<"E","N","O","E","N","T">>), <<>>, <<"s","p","a","w","n">>)}

\* lastExitCode without the default
recordedCode_NoDefault(error) == error.code

\* this.state.lastExitCode = error.code || 1
recordedCode(error) == OrElse(error.code, JSNumber(1))

\* the third argument of formatCommandOutput: error.code || 1
reportedCode(error) == OrElse(error.code, JSNumber(1))

\* the stderr reported without the message
reportedStderr_NoMessage(error) == error.stderr

\* the second argument of formatCommandOutput: error.stderr || error.message
reportedStderr(error) == OrElse(JSString(error.stderr), JSString(error.message)).str

\* the timeout option execAsync takes: a negative one makes it throw
\* ERR_OUT_OF_RANGE before any process is spawned
ValidTimeout(timeout) == timeout >= 0

OutOfRange == ExecError(JSString(<<"E","R","R","_","O","U","T","_","O","F","_","R","A","N","G","E">>), <<>>, <<"r","a","n","g","e">>)

\* execAsync throws inside the try block: the catch clause runs in the same
\* step, no process having been spawned
RejectsAtCall(fullCommand, error) ==
    /\ state' = [state EXCEPT !.lastExitCode = recordedCode(error), !.lastCommand = JSString(fullCommand)]
    /\ response' = [Answer("execute_command", fullCommand) EXCEPT !.outcome = "rejected", !.errorCode = error.code, !.exitCode = reportedCode(error), !.stderr = reportedStderr(error)]
    /\ UNCHANGED <<fs, env, processCwd, running, spawned, vInput, vResult>>

\* execAsync(fullCommand, execOptions): the working directory of the call is
\* recorded and the execution joins those awaited
Spawn(fullCommand, options) ==
    LET cwd == execCwd(options.cwd, state.currentDirectory)
    IN  /\ spawned' = [called |-> TRUE, cwd |-> cwd]
        /\ running' = Append(running, [fullCommand |-> fullCommand, started |-> CanSpawn(fs, processCwd, cwd)])

\* the handler of execute_command for a request whose command and args gave
\* the validation result: an error is thrown, or the process is spawned
handleExecuteCommand(validation, options) ==
    IF validation.error = "TypeError"
    THEN Throw(Thrown("execute_command", "InternalError", "Error executing tool", <<"TypeError">>))
    ELSE IF ~validation.isValid
    THEN Throw(Thrown("execute_command", "InvalidParams", "SECURITY BLOCK", <<validation.error>>))
    ELSE IF ~ValidTimeout(effectiveTimeout(options.timeout))
    THEN RejectsAtCall(fullCommandOf(validation), OutOfRange)
    ELSE /\ Spawn(fullCommandOf(validation), options)
         /\ UNCHANGED <<fs, env, processCwd, state, response, vInput, vResult>>

\* the commands of the requests that overlap
OverlapCommands == {<<"l","s">>, <<"p","w","d">>}

\* validation is a pure function of the request: its results for the
\* requests of the model
ExecValidations == [command \in ExecCommands \cup OverlapCommands |-> [args \in ExecArgLists |-> validateAndSanitizeCommand(command, args)]]

\* execute_command with the validation moved inside the try block of
\* executeCommand, whose catch records the attempt
execute_command_ValidatesInsideTry(command, args, optionsCwd) ==
    LET validation == ExecValidations[command][args]
    IN  IF ~validation.isValid
        THEN /\ state' = [state EXCEPT !.lastExitCode = JSNumber(1), !.lastCommand = JSString(toLowerCase(trim(command)))]
             /\ response' = Thrown("execute_command", "InvalidParams", "SECURITY BLOCK", <<validation.error>>)
             /\ UNCHANGED <<fs, env, processCwd, running, spawned, vInput, vResult>>
        ELSE handleExecuteCommand(validation, [NoOptions EXCEPT !.cwd = optionsCwd])

\* an execute_command request that gives no options but cwd
execute_command(command, args, optionsCwd) == handleExecuteCommand(ExecValidations[command][args], [NoOptions EXCEPT !.cwd = optionsCwd])

(***************************************************************************)
(* execAsync settles (index.ts 354-367).  A process that was not started   *)
(* fails with the code 'ENOENT'.  A started process exits with 0, exits    *)
(* with a failure status, or is killed at the timeout (the error carries   *)
(* the code null).  The error carries what the process wrote to stderr     *)
(* and a message that is never empty.                                      *)
(***************************************************************************)
RemoveAt(s, i) == SubSeq(s, 1, i - 1) \o SubSeq(s, i + 1, Len(s))

\* the bookkeeping and the answer of the execution at position i
Settle(i, outcome, errorCode, recorded, reported, stderr) ==
    /\ state' = [state EXCEPT !.lastExitCode = recorded, !.lastCommand = JSString(running[i].fullCommand)]
    /\ response' = [Answer("execute_command", running[i].fullCommand) EXCEPT !.outcome = outcome, !.errorCode = errorCode, !.exitCode = reported, !.stderr = stderr]
    /\ running' = RemoveAt(running, i)
    /\ UNCHANGED <<fs, env, processCwd, spawned, vInput, vResult>>

execResolves(i) ==
    /\ i \in 1..Len(running)
    /\ running[i].started
    /\ Settle(i, "resolved", JSNumber(0), JSNumber(0), JSNumber(0), <<>>)

execRejects(i, error) ==
    /\ i \in 1..Len(running)
    /\ error \in Errors(running[i].started, FailureStderrs)
    /\ Settle(i, "rejected", error.code, recordedCode(error), reportedCode(error), reportedStderr(error))

(***************************************************************************)
(* change_directory (index.ts 398-434).                                    *)
(***************************************************************************)
\* the texts of the two SECURITY BLOCK errors of change_directory
OutsideBoundary == <<"is outside the allowed boundary">>

DoesNotExist == <<"Directory does not exist">>

\* change_directory with currentDirectory assigned before the existence check
change_directory_AssignsBeforeCheck(path) ==
    LET r == resolveAndValidatePath(env, processCwd, state.currentDirectory, path)
    IN  IF ~r.ok
        THEN Throw(ForCd(Thrown("change_directory", "InvalidParams", "SECURITY BLOCK", OutsideBoundary), path))
        ELSE IF ~existsSync(fs, r.resolved)
        THEN /\ state' = [state EXCEPT !.currentDirectory = r.resolved]
             /\ response' = ForCd(Thrown("change_directory", "InvalidParams", "SECURITY BLOCK", DoesNotExist), path)
             /\ UNCHANGED <<fs, env, processCwd, running, spawned, vInput, vResult>>
        ELSE IF ~IsDirectory(fs, r.resolved)
        THEN Throw(ForCd(Thrown("change_directory", "InternalError", "Failed to change directory", <<"ENOTDIR">>), path))
        ELSE /\ processCwd' = realpath(fs, r.resolved)
             /\ state' = [state EXCEPT !.currentDirectory = processCwd']
             /\ response' = ForCd(Answer("change_directory", processCwd'), path)
             /\ UNCHANGED <<fs, env, running, spawned, vInput, vResult>>

change_directory(path) ==
    LET r == resolveAndValidatePath(env, processCwd, state.currentDirectory, path)
    IN  IF ~r.ok
        THEN Throw(ForCd(Thrown("change_directory", "InvalidParams", "SECURITY BLOCK", OutsideBoundary), path))
        ELSE IF ~existsSync(fs, r.resolved)
        THEN Throw(ForCd(Thrown("change_directory", "InvalidParams", "SECURITY BLOCK", DoesNotExist), path))
        ELSE IF ~IsDirectory(fs, r.resolved)
        THEN Throw(ForCd(Thrown("change_directory", "InternalError", "Failed to change directory", <<"ENOTDIR">>), path))
        ELSE /\ processCwd' = realpath(fs, r.resolved)
             /\ state' = [state EXCEPT !.currentDirectory = processCwd']
             /\ response' = ForCd(Answer("change_directory", processCwd'), path)
             /\ UNCHANGED <<fs, env, running, spawned, vInput, vResult>>

(***************************************************************************)
(* The read-only tools (index.ts 436-479).                                 *)
(***************************************************************************)
get_current_directory ==
    /\ response' = Answer("get_current_directory", state.currentDirectory)
    /\ UNCHANGED <<fs, env, processCwd, state, running, spawned, vInput, vResult>>

get_terminal_info ==
    /\ response' = [Answer("get_terminal_info", state.currentDirectory) EXCEPT !.exitCode = state.lastExitCode]
    /\ UNCHANGED <<fs, env, processCwd, state, running, spawned, vInput, vResult>>

\* Object.entries(ALLOWED_COMMANDS) mapped to "cmd: description"
\* the listing made of the keys alone
commandList_KeysOnly == [i \in 1..Len(ALLOWED_COMMANDS) |-> <<ALLOWED_COMMANDS[i].cmd, "">>]

commandList == [i \in 1..Len(ALLOWED_COMMANDS) |-> <<ALLOWED_COMMANDS[i].cmd, ALLOWED_COMMANDS[i].description>>]

list_allowed_commands ==
    /\ response' = Answer("list_allowed_commands", commandList)
    /\ UNCHANGED <<fs, env, processCwd, state, running, spawned, vInput, vResult>>

\* the model follows at most max executions at once: a request that would
\* spawn one more is left out
Followed(validation, max) == validation.isValid => Len(running) < max

\* the requests of the session that carry a stderr: that of a process that
\* wrote none
SessionStderrs == {<<>>}

Next ==
    \/ \E command \in ExecCommands, args \in ExecArgLists, optionsCwd \in ExecCwds : Followed(ExecValidations[command][args], MaxRunning) /\ execute_command(command, args, optionsCwd)
    \/ \E i \in 1..MaxRunning : execResolves(i)
    \/ \E i \in 1..MaxRunning, error \in Errors(TRUE, SessionStderrs) \cup Errors(FALSE, SessionStderrs) : execRejects(i, error)
    \/ \E path \in CdPaths : change_directory(path)
    \/ get_current_directory
    \/ get_terminal_info
    \/ list_allowed_commands

Spec == Init /\ [][Next]_vars
(***************************************************************************)
(* The validator alone: a (command, args) pair is drawn from the inputs    *)
(* below and validateAndSanitizeCommand is applied to it once.             *)
(***************************************************************************)
\* most arguments of a validator input
MaxVArgs == 2

\* command strings: every key of the table, spellings that normalize to a
\* key, commands the table does not hold, inherited property names
VCommands == AllowedKeys \cup {<<" ","L","S"," ">>, <<"C","a","t">>, <<"r","m">>, <<"s","u","d","o">>, <<"c","u","r","l">>, <<"w","g","e","t">>, <<"s","s","h">>, <<"x","y","z">>, <<>>, <<" "," ">>, <<"c","o","n","s","t","r","u","c","t","o","r">>, <<"_","_","p","r","o","t","o","_","_">>, <<"t","o","S","t","r","i","n","g">>}

\* raw arguments
VArgs == {<<"-","l","a">>, <<"-","L","A">>, <<"-","-","h","e","l","p">>, <<"-","n">>, <<";"," ","r","m"," ","-","r","f"," ","/">>, <<"n","o","t","e","s">>, <<"R","E","A","D","M","E",".","m","d">>, <<"a"," ","b">>, <<" "," ">>, <<"-","-","i","n","v","a","l","i","d","-","a","r","g">>}

RECURSIVE SeqsUpTo(_, _)
SeqsUpTo(S, n) == IF n = 0 THEN {<<>>} ELSE LET shorter == SeqsUpTo(S, n - 1) IN shorter \cup {Append(s, x) : s \in shorter, x \in S}

\* longest argument list of a validator input
MaxLongArgs == 11

\* the arguments a long list repeats
LongBaseArgs == {<<"-","-","h","e","l","p">>, <<"n","o","t","e","s">>}

\* lists around the limit of 10: one argument repeated, with any raw
\* argument in the first or the last place
LongArgLists == {[i \in 1..n |-> IF i = pos THEN special ELSE base] : <<n, pos>> \in {<<n, pos>> \in (MAX_ARGS..MaxLongArgs) \X (1..MaxLongArgs) : pos \in {1, n}}, base \in LongBaseArgs, special \in VArgs}

VArgLists == SeqsUpTo(VArgs, MaxVArgs) \cup LongArgLists

InitValidate ==
    /\ fs = LinuxFS
    /\ env = [BOUNDARY_DIR |-> <<>>, BOUNDARY_ESCAPE |-> <<>>]
    /\ processCwd = <<"/","h","o","m","e","/","u","s","e","r">>
    /\ state = [currentDirectory |-> processCwd, lastExitCode |-> JSNull, lastCommand |-> JSNull]
    /\ running = <<>>
    /\ spawned = NotSpawned
    /\ response = NoResponse
    /\ vInput \in [command : VCommands, args : VArgLists, options : {NoOptions}, processEnv : {<<>>}]
    /\ vResult = NotValidated

validate ==
    /\ vResult = NotValidated
    /\ vResult' = validateAndSanitizeCommand(vInput.command, vInput.args)
    /\ UNCHANGED <<fs, env, processCwd, state, running, spawned, response, vInput>>

NextValidate == validate

SpecValidate == InitValidate /\ [][NextValidate]_vars

(***************************************************************************)
(* The validator applied to the Policy Table itself: every command with no *)
(* argument and with each literal of its allowedArgs alone.                *)
(***************************************************************************)
TableInputs == {<<ALLOWED_COMMANDS[i].cmd, <<>>>> : i \in 1..Len(ALLOWED_COMMANDS)} \cup UNION {{<<ALLOWED_COMMANDS[i].cmd, <<ALLOWED_COMMANDS[i].allowedArgs[j]>>>> : j \in 1..Len(ALLOWED_COMMANDS[i].allowedArgs)} : i \in 1..Len(ALLOWED_COMMANDS)}

InitTable ==
    /\ fs = LinuxFS
    /\ env = [BOUNDARY_DIR |-> <<>>, BOUNDARY_ESCAPE |-> <<>>]
    /\ processCwd = <<"/","h","o","m","e","/","u","s","e","r">>
    /\ state = [currentDirectory |-> processCwd, lastExitCode |-> JSNull, lastCommand |-> JSNull]
    /\ running = <<>>
    /\ spawned = NotSpawned
    /\ response = NoResponse
    /\ vInput \in {[command |-> input[1], args |-> input[2], options |-> NoOptions, processEnv |-> <<>>] : input \in TableInputs}
    /\ vResult = NotValidated

NextTable == validate

SpecTable == InitTable /\ [][NextTable]_vars

(***************************************************************************)
(* execOptions alone: the options of a request and process.env are drawn   *)
(* and the options handed to execAsync are built from them once.           *)
(***************************************************************************)
InitOptions ==
    /\ fs = LinuxFS
    /\ env = [BOUNDARY_DIR |-> <<>>, BOUNDARY_ESCAPE |-> <<>>]
    /\ processCwd = <<"/","h","o","m","e","/","u","s","e","r">>
    /\ state = [currentDirectory |-> processCwd, lastExitCode |-> JSNull, lastCommand |-> JSNull]
    /\ running = <<>>
    /\ spawned = NotSpawned
    /\ response = NoResponse
    /\ vInput \in [command : {<<"l","s">>}, args : {<<>>}, options : [cwd : ExecCwds, timeout : Timeouts, env : CallerEnvs], processEnv : ProcessEnvs]
    /\ vResult = NotValidated

buildExecOptions ==
    /\ vResult = NotValidated
    /\ vResult' = execOptionsOf(vInput.options, state.currentDirectory, vInput.processEnv)
    /\ UNCHANGED <<fs, env, processCwd, state, running, spawned, response, vInput>>

NextOptions == buildExecOptions

SpecOptions == InitOptions /\ [][NextOptions]_vars

(***************************************************************************)
(* One execution: an execute_command request is drawn, handled, and        *)
(* followed until execAsync has settled.                                   *)
(***************************************************************************)
XCommands == {<<"l","s">>, <<" ","L","S"," ">>, <<"r","m">>}

XArgLists == {<<>>, <<<<" ","-","l","a"," ">>, <<" "," ">>>>}

XCwds == {<<>>, <<"/","e","t","c">>, <<"/","n","o","n","e","x","i","s","t","e","n","t">>}

XTimeouts == {JSUndefined, JSNumber(1)}

InitExec ==
    /\ fs = LinuxFS
    /\ env = [BOUNDARY_DIR |-> <<>>, BOUNDARY_ESCAPE |-> <<>>]
    /\ processCwd = <<"/","h","o","m","e","/","u","s","e","r">>
    /\ state = [currentDirectory |-> processCwd, lastExitCode |-> JSNull, lastCommand |-> JSNull]
    /\ running = <<>>
    /\ spawned = NotSpawned
    /\ response = NoResponse
    /\ vInput \in [command : XCommands, args : XArgLists, options : [cwd : XCwds, timeout : XTimeouts, env : {<<>>}], processEnv : {<<>>}]
    /\ vResult = NotValidated

\* the request is made once
request ==
    /\ response = NoResponse
    /\ ~spawned.called
    /\ handleExecuteCommand(validateAndSanitizeCommand(vInput.command, vInput.args), vInput.options)

NextExec ==
    \/ request
    \/ \E i \in 1..MaxRunning : execResolves(i)
    \/ \E i \in 1..MaxRunning, error \in Errors(TRUE, FailureStderrs) \cup Errors(FALSE, FailureStderrs) : execRejects(i, error)

SpecExec == InitExec /\ [][NextExec]_vars

(***************************************************************************)
(* Overlapping requests: execute_command requests arrive while earlier     *)
(* executions are outstanding.                                             *)
(***************************************************************************)
\* most executions outstanding at once
MaxOverlap == 2

OverlapPaths == {<<"/","t","m","p","/","t","e","s","t">>, <<".",".">>}

InitOverlap ==
    /\ fs = LinuxFS
    /\ env = [BOUNDARY_DIR |-> <<>>, BOUNDARY_ESCAPE |-> <<>>]
    /\ processCwd = <<"/","h","o","m","e","/","u","s","e","r">>
    /\ state = [currentDirectory |-> processCwd, lastExitCode |-> JSNull, lastCommand |-> JSNull]
    /\ running = <<>>
    /\ spawned = NotSpawned
    /\ response = NoResponse
    /\ vInput = NoInput
    /\ vResult = NotValidated

NextOverlap ==
    \/ \E command \in OverlapCommands : Followed(ExecValidations[command][<<>>], MaxOverlap) /\ execute_command(command, <<>>, <<>>)
    \/ \E i \in 1..MaxOverlap : execResolves(i)
    \/ \E i \in 1..MaxOverlap, error \in Errors(TRUE, SessionStderrs) : execRejects(i, error)
    \/ \E path \in OverlapPaths : change_directory(path)
    \/ get_terminal_info

SpecOverlap == InitOverlap /\ [][NextOverlap]_vars

(***************************************************************************)
(* One execution under the scheduling of the event loop: the timer that    *)
(* execAsync arms for its timeout option fires, and a rejection that is    *)
(* ready is delivered; a process need not ever exit by itself.             *)
(***************************************************************************)
LiveCommands == {<<"l","s">>, <<"c","a","t">>, <<"r","m">>}

LiveArgLists == {<<>>, <<<<"n","o","t","e","s">>>>}

LiveCwds == {<<>>, <<"/","n","o","n","e","x","i","s","t","e","n","t">>}

LiveTimeouts == {JSUndefined} \cup {JSNumber(n) : n \in {-1, 0, 1, 10001}}

InitLive ==
    /\ fs = LinuxFS
    /\ env = [BOUNDARY_DIR |-> <<>>, BOUNDARY_ESCAPE |-> <<>>]
    /\ processCwd = <<"/","h","o","m","e","/","u","s","e","r">>
    /\ state = [currentDirectory |-> processCwd, lastExitCode |-> JSNull, lastCommand |-> JSNull]
    /\ running = <<>>
    /\ spawned = NotSpawned
    /\ response = NoResponse
    /\ vInput \in [command : LiveCommands, args : LiveArgLists, options : [cwd : LiveCwds, timeout : LiveTimeouts, env : {<<>>}], processEnv : {<<>>}]
    /\ vResult = NotValidated

\* execAsync arms its timer for a positive timeout option only
TimerArmed(timeout) == timeout > 0

\* the rejection of an execution whose process the timer killed
Killed == ExecError(JSNull, <<>>, <<"f","a","i","l","e","d">>)

\* the process ends by itself, with exit code 0 or with a failure code
processExits(i) ==
    \/ execResolves(i)
    \/ \E error \in Errors(TRUE, FailureStderrs) \ {Killed} : execRejects(i, error)

\* the timeout elapses: the process is killed and execAsync rejects
timeoutElapses(i) ==
    /\ i \in 1..Len(running)
    /\ running[i].started
    /\ TimerArmed(effectiveTimeout(vInput.options.timeout))
    /\ execRejects(i, Killed)

\* the process could not be spawned: execAsync rejects
spawnFails(i) ==
    /\ i \in 1..Len(running)
    /\ ~running[i].started
    /\ \E error \in Errors(FALSE, FailureStderrs) : execRejects(i, error)

NextLive ==
    \/ request
    \/ \E i \in 1..MaxRunning : processExits(i)
    \/ \E i \in 1..MaxRunning : timeoutElapses(i)
    \/ \E i \in 1..MaxRunning : spawnFails(i)

\* an armed timer fires, a ready rejection is delivered
FairLive ==
    /\ WF_vars(\E i \in 1..MaxRunning : timeoutElapses(i))
    /\ WF_vars(\E i \in 1..MaxRunning : spawnFails(i))

SpecLive == InitLive /\ [][NextLive]_vars /\ FairLive

(***************************************************************************)
(* A session of a server whose BOUNDARY_DIR is not set or is a relative    *)
(* path, with requests for directories named by absolute paths.            *)
(***************************************************************************)
RelativeBoundaryValues == {<<>>, <<"t","m","p">>}

BoundaryStartDirs == {<<"/">>, <<"/","h","o","m","e","/","u","s","e","r">>}

BoundaryPaths == {<<"/","t","m","p">>, <<"/","t","m","p","/","t","e","s","t">>, <<"/","t","m","p","/","t","e","s","t","/","s","u","b">>, <<"/","h","o","m","e","/","u","s","e","r">>, <<"/","e","t","c">>}

InitBoundary ==
    /\ fs = LinuxFS
    /\ env \in [BOUNDARY_DIR : RelativeBoundaryValues, BOUNDARY_ESCAPE : {<<>>}]
    /\ processCwd \in BoundaryStartDirs
    /\ state = [currentDirectory |-> processCwd, lastExitCode |-> JSNull, lastCommand |-> JSNull]
    /\ running = <<>>
    /\ spawned = NotSpawned
    /\ response = NoResponse
    /\ vInput = NoInput
    /\ vResult = NotValidated

NextBoundary ==
    \/ \E path \in BoundaryPaths : change_directory(path)
    \/ Followed(ExecValidations[<<"l","s">>][<<>>], MaxRunning) /\ execute_command(<<"l","s">>, <<>>, <<>>)
    \/ \E i \in 1..MaxRunning : execResolves(i)
    \/ \E i \in 1..MaxRunning, error \in Errors(TRUE, SessionStderrs) : execRejects(i, error)
    \/ get_current_directory
    \/ get_terminal_info
    \/ list_allowed_commands

SpecBoundary == InitBoundary /\ [][NextBoundary]_vars
(***************************************************************************)
(* Properties.                                                             *)
(***************************************************************************)
Validated == vResult # NotValidated

NormalizedInput == toLowerCase(trim(vInput.command))

ComposedInput == NormalizedInput \o <<" ">> \o join(vInput.args, <<" ">>)

EscapeEnabled == env.BOUNDARY_ESCAPE = <<"t","r","u","e">>

\* the boundary root and its canonical form
BoundaryRoot == pathResolve(<<getBoundaryDir(env)>>, processCwd)

CanonicalRoot == realpath(fs, BoundaryRoot)

\* P equals R or P starts with R followed by a path separator
UnderRoot(P, R) == P = R \/ (Len(P) > Len(R) /\ SubSeq(P, 1, Len(R)) = R /\ P[Len(R) + 1] = "/")

\* C1: a command whose trimmed, lowercased form is not a key of the Policy
\* Table is rejected by validateAndSanitizeCommand whatever its arguments.
C1_NonTableCommandRejected == (Validated /\ NormalizedInput \notin AllowedKeys) => ~vResult.isValid

\* C2: for a whitelisted command, a composed line (normalized command, a
\* space, the raw arguments joined by spaces) that matches one of the
\* FORBIDDEN_PATTERNS is rejected.
C2_ForbiddenLineRejected == (Validated /\ NormalizedInput \in AllowedKeys /\ \E k \in 1..Len(FORBIDDEN_PATTERNS) : test(FORBIDDEN_PATTERNS[k], ComposedInput)) => (~vResult.isValid /\ vResult.error = "Command contains forbidden pattern")

\* ls with the argument '; rm -rf /' has been validated and rejected
C2_Witness == Validated /\ vInput.command = <<"l","s">> /\ vInput.args = <<<<";"," ","r","m"," ","-","r","f"," ","/">>>> /\ ~vResult.isValid

\* C3: a step that answers an execute_command request with an error spawns
\* no process and leaves lastCommand, lastExitCode and currentDirectory (and
\* the working directory of the process) as they were.
C3_RejectedExecChangesNothing == [][(response' # response /\ response'.tool = "execute_command" /\ response'.status = "error") => (state' = state /\ running' = running /\ spawned' = spawned /\ processCwd' = processCwd)]_vars

\* an execute_command request was rejected after an earlier execution had
\* been recorded and while a process is running
C3_Witness == response.tool = "execute_command" /\ response.status = "error" /\ response.code = "InvalidParams" /\ state.lastCommand # JSNull /\ Len(running) > 0

\* C4: with escape disabled, the working directory of every spawned process
\* equals the boundary root or lies beneath it.
C4_SpawnedWithinBoundary == (~EscapeEnabled /\ spawned.called /\ CanSpawn(fs, processCwd, spawned.cwd)) => UnderRoot(realpath(fs, pathResolve(<<spawned.cwd>>, processCwd)), CanonicalRoot)

\* C5: with escape disabled, currentDirectory equals the boundary root or is
\* a descendant of it in every reachable state.
C5_CurrentDirectoryWithinBoundary == ~EscapeEnabled => UnderRoot(realpath(fs, state.currentDirectory), CanonicalRoot)

\* a change_directory request is answered by this step
CdStep == response' # response /\ response'.tool = "change_directory"

\* the resolver let the request of the latest answer through
ResolverAccepted(r) == r.text # OutsideBoundary

\* C6: with escape disabled, the resolver accepts a change_directory request
\* iff the path resolved against currentDirectory equals the resolved
\* boundary root or starts with it followed by a path separator; the
\* requests '../../../etc' and '/etc/shadow' are rejected as outside.
C6_AcceptIffUnderRoot == [][(CdStep /\ ~EscapeEnabled) => LET P == pathResolve(<<state.currentDirectory, response'.path>>, processCwd) IN (ResolverAccepted(response') <=> UnderRoot(P, BoundaryRoot)) /\ (response'.path \in {<<".",".","/",".",".","/",".",".","/","e","t","c">>, <<"/","e","t","c","/","s","h","a","d","o","w">>} => (response'.status = "error" /\ response'.text = OutsideBoundary))]_vars

\* with the boundary /tmp and escape disabled, /tmp2 was rejected as outside
C6_Witness == ~EscapeEnabled /\ BoundaryRoot = <<"/","t","m","p">> /\ response.tool = "change_directory" /\ response.path = <<"/","t","m","p","2">> /\ response.status = "error" /\ response.text = OutsideBoundary

\* C7: the boundary decision is made on the canonical forms of the requested
\* path and of the boundary root.
C7_DecisionOnCanonicalPaths == [][(CdStep /\ ~EscapeEnabled) => LET P == pathResolve(<<state.currentDirectory, response'.path>>, processCwd) IN ResolverAccepted(response') <=> UnderRoot(realpath(fs, P), CanonicalRoot)]_vars

\* C8: with the escape flag enabled no change_directory request is rejected
\* as outside the boundary.
C8_EscapeAcceptsEveryPath == (EscapeEnabled /\ response.tool = "change_directory") => ResolverAccepted(response)

\* no request has been made yet
Constructed == response = NoResponse /\ running = <<>>

\* C9: after construction with escape not enabled and an existing boundary
\* directory, the working directory of the process and currentDirectory are
\* the canonical boundary directory.
C9_StartsInBoundary == (Constructed /\ ~EscapeEnabled /\ IsDirectory(fs, BoundaryRoot)) => (processCwd = CanonicalRoot /\ state.currentDirectory = CanonicalRoot)

\* C10: a rejected change_directory reports 'outside boundary' or 'target
\* does not exist' and nothing else.
C10_TwoRejectionReasons == (response.tool = "change_directory" /\ response.status = "error") => (response.reason = "SECURITY BLOCK" /\ response.text \in {OutsideBoundary, DoesNotExist})


RequiresFileInput == NormalizedInput \in AllowedKeys /\ CommandConfigOf(NormalizedInput).requiresFile

\* C12: for an entry with requiresFile = true, a single argument that does
\* not begin with '-' is accepted when it consists only of letters, digits,
\* '.', '_', '-' and '/' (cat README.md), and rejected when it holds any
\* other character (an argument of white space alone is skipped, not judged).
C12_SafeFileArgumentAccepted == (Validated /\ RequiresFileInput /\ Len(vInput.args) = 1 /\ Len(trim(vInput.args[1])) > 0 /\ ~startsWith(vInput.args[1], <<"-">>)) => (vResult.isValid <=> IsSafeFilePath(vInput.args[1]))

\* the argument a alone is valid for the command of the validated request
IndividuallyValid(a) == validateAndSanitizeCommand(vInput.command, <<a>>).isValid

AllIndividuallyValid == \A i \in 1..Len(vInput.args) : IndividuallyValid(vInput.args[i])

NoBlankArgument == \A i \in 1..Len(vInput.args) : Len(trim(vInput.args[i])) > 0

TooManyArguments == ~vResult.isValid /\ vResult.error = "Too many arguments (maximum 10 allowed)"

C13_WitnessTen == Validated /\ vInput.command = <<"c","a","t">> /\ vInput.args = [i \in 1..10 |-> <<"n","o","t","e","s">>] /\ vResult.isValid /\ Len(vResult.sanitizedArgs) = 10

\* the Policy Table entry of the validated command takes no file argument
NoFileInput == NormalizedInput \in AllowedKeys /\ ~CommandConfigOf(NormalizedInput).requiresFile

\* a is, character for character, one of the allowedArgs of the entry
AllowedLiteral(a) == LET allowedArgs == CommandConfigOf(NormalizedInput).allowedArgs IN \E i \in 1..Len(allowedArgs) : allowedArgs[i] = a

\* the positions of the arguments that are non-empty after trimming and are
\* no allowedArgs literal
Offending == {i \in 1..Len(vInput.args) : Len(trim(vInput.args[i])) > 0 /\ ~AllowedLiteral(trim(vInput.args[i]))}

FirstOffending == CHOOSE i \in Offending : \A j \in Offending : i <= j

NamesFirstOffending == vResult.error = "Argument not allowed for command" /\ vResult.detail = trim(vInput.args[FirstOffending])

DenyListMatches == \E k \in 1..Len(FORBIDDEN_PATTERNS) : test(FORBIDDEN_PATTERNS[k], ComposedInput)

\* C14 as stated: for an entry with requiresFile = false a request is
\* accepted only if every argument that is non-empty after trimming equals
\* an allowedArgs literal case-sensitively; any other argument rejects the
\* request naming that argument; an entry with no allowedArgs accepts only
\* lists without a non-empty argument.
C14_OtherArgumentNamed == (Validated /\ NoFileInput) => ((vResult.isValid => Offending = {}) /\ (Offending # {} => (~vResult.isValid /\ NamesFirstOffending)))

\* C14 amended: as stated, except that the rejection names the first such
\* argument only when the composed line matches no deny-list pattern, and
\* names the pattern when it matches one.
C14_OtherArgumentRejected == (Validated /\ NoFileInput) => ((vResult.isValid => Offending = {}) /\ (Offending # {} => (~vResult.isValid /\ IF DenyListMatches THEN vResult.error = "Command contains forbidden pattern" ELSE NamesFirstOffending)))

\* ls with -LA, which differs from the literal -la in case alone, was
\* rejected naming -LA
C14_Witness == Validated /\ vInput.command = <<"l","s">> /\ vInput.args = <<<<"-","L","A">>>> /\ ~vResult.isValid /\ vResult.detail = <<"-","L","A">>

\* help, whose allowedArgs is empty, was rejected for an argument
C14_WitnessEmptyList == Validated /\ vInput.command = <<"h","e","l","p">> /\ vInput.args = <<<<"-","-","h","e","l","p">>>> /\ ~vResult.isValid /\ vResult.detail = <<"-","-","h","e","l","p">>

\* execOptions has been built from the drawn options
Built == vResult # NotValidated

\* C15: whatever timeout the caller requests (none, zero, any number), the
\* timeout handed to execAsync is at most 10000, and it is the requested
\* value when that is between 1 and 10000.
C15_TimeoutCeiling == Built => (vResult.timeout <= 10000 /\ ((vInput.options.timeout.type = "number" /\ vInput.options.timeout.num \in 1..10000) => vResult.timeout = vInput.options.timeout.num))

\* a request for 20000 ms was given 10000 ms
C15_Witness == Built /\ vInput.options.timeout = JSNumber(20000) /\ vResult.timeout = 10000

\* a request for 5000 ms was given 5000 ms
C15_WitnessKept == Built /\ vInput.options.timeout = JSNumber(5000) /\ vResult.timeout = 5000

\* C16: the env object handed to execAsync has exactly the keys PATH, HOME,
\* USER and SHELL and the keys of options.env; a key of options.env has the
\* caller's value, and each other key has what process.env holds for it
\* (undefined when the server has no such variable).
C16_ChildEnvironment == Built => LET childEnv == vResult.env
                                     callerEnv == vInput.options.env
                                 IN  /\ DOMAIN childEnv = {"PATH", "HOME", "USER", "SHELL"} \cup DOMAIN callerEnv
                                     /\ \A k \in DOMAIN childEnv : childEnv[k] = IF k \in DOMAIN callerEnv THEN JSString(callerEnv[k]) ELSE PropertyOf(vInput.processEnv, k)

\* the caller's PATH replaced that of the server, LD_PRELOAD was added and
\* API_TOKEN of the server was not handed on
C16_Witness == Built /\ "API_TOKEN" \in DOMAIN vInput.processEnv /\ vInput.options.env = [PATH |-> <<"/","e","v","i","l">>, LD_PRELOAD |-> <<"x",".","s","o">>] /\ vResult.env["PATH"] = JSString(<<"/","e","v","i","l">>) /\ DOMAIN vResult.env = {"PATH", "HOME", "USER", "SHELL", "LD_PRELOAD"}

\* the request drawn was accepted by the validator
Accepted == validateAndSanitizeCommand(vInput.command, vInput.args).isValid

\* the execution of the request has been answered
Settled == response.tool = "execute_command" /\ response.status = "ok"

\* C17: after a completed attempt (exit 0, failure exit, spawn failure,
\* timeout) lastCommand is the sanitized command line of the request and
\* lastExitCode is the exit code reported to the caller, which is 0 exactly
\* when the process succeeded.
C17_BookkeepingMatchesAnswer == Settled => (/\ state.lastCommand = JSString(fullCommandOf(validateAndSanitizeCommand(vInput.command, vInput.args)))
                                            /\ state.lastExitCode = response.exitCode
                                            /\ (response.exitCode = JSNumber(0) <=> response.outcome = "resolved"))

\* ' LS ' with the arguments ' -la ' and '  ' was killed at the timeout: the
\* line recorded is 'ls -la' and the code recorded and reported is 1
C17_Witness == Settled /\ vInput.command = <<" ","L","S"," ">> /\ vInput.args = <<<<" ","-","l","a"," ">>, <<" "," ">>>> /\ response.outcome = "rejected" /\ response.errorCode = JSNull /\ state.lastCommand = JSString(<<"l","s"," ","-","l","a">>) /\ state.lastExitCode = JSNumber(1) /\ response.exitCode = JSNumber(1)

\* C18: an accepted execute_command request is never answered with an
\* error; a process that exits with a failure status yields a result with
\* that status, and every failure (failure exit, spawn failure, timeout)
\* yields a result with a code other than 0 and a stderr that is not empty.
C18_FailureIsAResult == /\ (response.tool = "execute_command" /\ Accepted) => response.status = "ok"
                        /\ (Settled /\ response.outcome = "rejected") => (/\ Truthy(response.exitCode)
                                                                          /\ response.exitCode # JSNumber(0)
                                                                          /\ Len(response.stderr) > 0
                                                                          /\ (response.errorCode.type = "number" => response.exitCode = response.errorCode))

\* a process killed at the timeout, which wrote nothing to stderr, was
\* answered with the code 1 and the message of the error as stderr
C18_Witness == Settled /\ response.outcome = "rejected" /\ response.errorCode = JSNull /\ response.exitCode = JSNumber(1) /\ response.stderr = <<"f","a","i","l","e","d">>

\* a process that could not be spawned was answered with a result
C18_WitnessSpawn == Settled /\ response.outcome = "rejected" /\ response.errorCode = JSString(<<"E","N","O","E","N","T">>) /\ response.stderr = <<"s","p","a","w","n">>

\* C19: lastExitCode is null or a number and lastCommand is null or a
\* string in every reachable state.
C19_StateTypes == state.lastExitCode.type \in {"null", "number"} /\ state.lastCommand.type \in {"null", "string"}

\* C20: requests that arrive while an execution is outstanding leave the
\* state that processing them one at a time in arrival order leaves: the
\* execution that completes, and writes lastCommand and lastExitCode, is
\* the earliest of those outstanding, so that after two overlapping
\* requests the values are those of the later arrival.
C20_CompletesInArrivalOrder == [][Len(running') < Len(running) => running' = Tail(running)]_vars

\* the execution was ended by the timeout
TimedOut == Settled /\ response.outcome = "rejected" /\ response.errorCode = JSNull

\* the handler of the request has run
Handled == spawned.called \/ response # NoResponse

\* the execution of the request is outstanding
Pending == Len(running) > 0

\* C21: every execute_command request on an accepted command is eventually
\* answered with a result: when its handler has run its execution is
\* outstanding or answered, and an outstanding execution is eventually
\* answered; once it is answered no execution of it is outstanding (none is
\* started again), and an execution ended by the timeout is reported with a
\* non-zero exit code.
C21_EveryExecutionReturns ==
    /\ []((Accepted /\ Handled) => (Pending \/ Settled))
    /\ Pending ~> Settled
    /\ [](Settled => ~Pending)
    /\ [](TimedOut => (response.exitCode.type = "number" /\ response.exitCode.num # 0))

C21_Witness == TimedOut /\ spawned.called /\ running = <<>> /\ vInput.options.timeout = JSNumber(10001)

C21_WitnessThrown == Settled /\ ~spawned.called /\ vInput.options.timeout = JSNumber(-1)

\* the Policy Table listed in its order: each command with its description
PolicyListing == [i \in 1..Len(ALLOWED_COMMANDS) |-> <<ALLOWED_COMMANDS[i].cmd, ALLOWED_COMMANDS[i].description>>]

\* C22: whatever happened before, the answer of list_allowed_commands is the
\* listing of the Policy Table, every command with its description in the
\* order of the table.
C22_ListingIsConstant == response.tool = "list_allowed_commands" => (response.status = "ok" /\ response.text = PolicyListing)

C22_Witness == response.tool = "list_allowed_commands" /\ state.lastCommand # JSNull /\ processCwd = <<"/","t","m","p","/","t","e","s","t">>

\* C23 (as claimed): the boundary root that change_directory decisions use
\* is the same in every state of the process.
C23_BoundaryRootFixed == [][pathResolve(<<getBoundaryDir(env')>>, processCwd') = BoundaryRoot]_vars

HomeDirectory == <<"/","h","o","m","e","/","u","s","e","r">>

SystemDirectories == {<<"/","e","t","c">>, <<"/","v","a","r">>, <<"/","b","i","n">>}

\* C24 (as claimed): with the default configuration, a change_directory
\* request for an existing directory under the home directory or under /tmp
\* is accepted, and one for a path under /etc, /var or /bin is rejected.
C24_HomeAndTmpOnly ==
    (response.tool = "change_directory" /\ env.BOUNDARY_DIR = <<>> /\ response.path[1] = "/") =>
        /\ ((UnderRoot(response.path, HomeDirectory) \/ UnderRoot(response.path, DEFAULT_BOUNDARY)) /\ IsDirectory(fs, response.path)) => response.status = "ok"
        /\ (\E d \in SystemDirectories : UnderRoot(response.path, d)) => response.status = "error"

\* the arguments that are non-empty after trimming, trimmed, in their order
RECURSIVE TrimmedNonEmpty(_)
TrimmedNonEmpty(args) == IF args = <<>> THEN <<>> ELSE LET t == TrimEnd(TrimStart(Head(args))) IN (IF t = <<>> THEN <<>> ELSE <<t>>) \o TrimmedNonEmpty(Tail(args))

ArgumentReasons == {"File path argument is not allowed", "Argument not allowed for command"}

\* C25: an accepted request has for sanitized arguments its raw arguments
\* trimmed, without those that are empty after trimming, in their order, and
\* for sanitized command its command trimmed and lowercased; no rejection
\* names an empty argument, and the count that rejects is that of the
\* arguments that are non-empty after trimming.
C25_SanitizedIsTrimmedInput ==
    Validated =>
        /\ vResult.isValid => (vResult.sanitizedArgs = TrimmedNonEmpty(vInput.args) /\ vResult.sanitizedCommand = toLowerCase(TrimEnd(TrimStart(vInput.command))))
        /\ vResult.error \in ArgumentReasons => vResult.detail # <<>>
        /\ TooManyArguments => Len(TrimmedNonEmpty(vInput.args)) > MAX_ARGS

\* 11 raw arguments of which one is blank were accepted as 10
C25_Witness == Validated /\ vResult.isValid /\ Len(vInput.args) = 11 /\ Len(vResult.sanitizedArgs) = 10 /\ vInput.args[11] = <<" "," ">>

\* the reason the per-argument check has against the trimmed argument a of
\* a Policy Table command ("": none)
ArgumentReason(a) ==
    IF CommandConfigOf(NormalizedInput).requiresFile /\ a[1] # "-"
    THEN (IF IsSafeFilePath(a) THEN "" ELSE "File path argument is not allowed")
    ELSE (IF AllowedLiteral(a) THEN "" ELSE "Argument not allowed for command")

\* the positions of the arguments the per-argument check has a reason against
Rejectable == {i \in 1..Len(vInput.args) : Len(trim(vInput.args[i])) > 0 /\ ArgumentReason(trim(vInput.args[i])) # ""}

FirstRejectable == CHOOSE i \in Rejectable : \A j \in Rejectable : i <= j

FirstPattern == CHOOSE k \in 1..Len(FORBIDDEN_PATTERNS) : test(FORBIDDEN_PATTERNS[k], ComposedInput) /\ \A j \in 1..(k - 1) : ~test(FORBIDDEN_PATTERNS[j], ComposedInput)

\* the reason and its detail of the first failing check in the fixed order
FirstFailingCheck ==
    IF Len(vInput.command) = 0
    THEN <<"Command must be a non-empty string", <<>>>>
    ELSE IF NormalizedInput \notin AllowedKeys
    THEN <<"Command is not in the allowed whitelist", NormalizedInput>>
    ELSE IF DenyListMatches
    THEN <<"Command contains forbidden pattern", <<FORBIDDEN_PATTERNS[FirstPattern].source>>>>
    ELSE IF Rejectable # {}
    THEN <<ArgumentReason(trim(vInput.args[FirstRejectable])), trim(vInput.args[FirstRejectable])>>
    ELSE IF Len(TrimmedNonEmpty(vInput.args)) > MAX_ARGS
    THEN <<"Too many arguments (maximum 10 allowed)", <<>>>>
    ELSE <<"", <<>>>>

\* C26 (as claimed): the reason of a validation is that of the first failing
\* check in the order empty command, command not in the Policy Table,
\* deny-list pattern (the first that matches), per-argument check (the first
\* offending argument), too many arguments; a request failing none is
\* accepted.
C26_FirstFailingCheckReported == Validated => <<vResult.error, vResult.detail>> = FirstFailingCheck

\* the characters of the deny-list's character class
ShellMetacharacters == {";", "&", "|", Backtick, "$", "(", ")", "{", "}", "<", ">", "*", "?", "[", "]"}

\* the command line handed to the shell for the accepted request
ShellLine == fullCommandOf(vResult)

\* C27: the command line composed from the sanitized command and arguments
\* of an accepted request matches no FORBIDDEN_PATTERN and holds none of the
\* characters ; & | ` $ ( ) { } < > * ? [ ], and no sanitized argument
\* holds white space.
C27_ShellLineIsClean ==
    (Validated /\ vResult.isValid) =>
        /\ \A k \in 1..Len(FORBIDDEN_PATTERNS) : ~test(FORBIDDEN_PATTERNS[k], ShellLine)
        /\ \A i \in 1..Len(ShellLine) : ShellLine[i] \notin ShellMetacharacters
        /\ \A j \in 1..Len(vResult.sanitizedArgs) : \A i \in 1..Len(vResult.sanitizedArgs[j]) : vResult.sanitizedArgs[j][i] \notin Whitespace

\* cat with the file notes and a blank argument was accepted as 'cat notes'
C27_Witness == Validated /\ vResult.isValid /\ vInput.args = <<<<"n","o","t","e","s">>, <<" "," ">>>> /\ ShellLine = <<"c","a","t"," ","n","o","t","e","s">>

\* an execution attempt completes in the step: it is outstanding no longer
Completes(i) == i \in 1..Len(running) /\ running' = RemoveAt(running, i)

\* C28: lastCommand and lastExitCode are both absent or both present; the
\* step that completes an attempt writes both, the command line of that
\* attempt and the exit code reported for it, and no other step writes
\* either, so that both are absent exactly until the first completion.
C28_WrittenTogether ==
    /\ [](state.lastCommand = JSNull <=> state.lastExitCode = JSNull)
    /\ [][IF Len(running') < Len(running)
          THEN \E i \in 1..Len(running) : Completes(i) /\ state'.lastCommand = JSString(running[i].fullCommand) /\ response'.text = running[i].fullCommand /\ state'.lastExitCode = response'.exitCode /\ state'.lastExitCode # JSNull
          ELSE state'.lastCommand = state.lastCommand /\ state'.lastExitCode = state.lastExitCode]_vars

\* one attempt has completed while another is outstanding
C28_Witness == state.lastCommand = JSString(<<"p","w","d"," ">>) /\ state.lastExitCode = JSNumber(1) /\ Len(running) = 1 /\ running[1].fullCommand = <<"l","s"," ">>

\* the validated request is a Policy Table command with no argument or with
\* one literal of its allowedArgs
TableRequest == NormalizedInput = vInput.command /\ vInput.command \in AllowedKeys /\ (vInput.args = <<>> \/ (Len(vInput.args) = 1 /\ AllowedLiteral(vInput.args[1])))

\* C29: every Policy Table command is accepted with no argument and with
\* each literal of its allowedArgs as the single argument, the composed line
\* matching no FORBIDDEN_PATTERN.
C29_TableEntriesUsable == (Validated /\ TableRequest) => (vResult.isValid /\ ~DenyListMatches)

\* ls -R, a literal with an upper-case letter, was accepted
C29_Witness == Validated /\ vInput.command = <<"l","s">> /\ vInput.args = <<<<"-","R">>>> /\ vResult.isValid /\ vResult.sanitizedArgs = <<<<"-","R">>>>

\* git with its literal --oneline was accepted
C29_WitnessGit == Validated /\ vInput.command = <<"g","i","t">> /\ vInput.args = <<<<"-","-","o","n","e","l","i","n","e">>>> /\ vResult.isValid

\* C30 (as claimed): whatever timeout is requested, the timeout handed to
\* execAsync is in 1..10000.
C30_EffectiveTimeoutPositive == Built => vResult.timeout \in 1..MAX_TIMEOUT
=============================================================================
